---- MODULE Spec2Model ----
(***************************************************************************)
(* Model of llm_md_parser.py: the LLM-MD template expander (parse_llm_md)  *)
(* and the worksheet parser (parse_worksheet_content).                     *)
(*                                                                         *)
(* A Python str is a sequence of one-character strings, so that strip,     *)
(* split, startswith, the regular expressions and int() are computed and   *)
(* not assumed.  None is the empty sequence where the code only tests the  *)
(* value for truthiness, and a record with a flag elsewhere.  A raised     *)
(* ValueError is a value tagged "FormatError" (raised while parsing a      *)
(* header line) or "SectionNotFound" (raised by parse_llm_md itself).      *)
(***************************************************************************)
EXTENDS Integers, Sequences, FiniteSets, TLC

VARIABLES
    pc,                     \* position of the running call
    line,                   \* _parse_header_line: its argument
    header,                 \* _parse_header_line: its result
    template,               \* parse_llm_md: template
    section,                \* parse_llm_md: section (<<>> is None, <<s>> is s)
    quantities,             \* parse_llm_md: quantities
    parsed_structure,       \* parse_llm_md: parsed_structure
    section_structure,      \* parse_llm_md: section_structure
    result,                 \* parse_llm_md: returned string or raised error
    worksheet_content,      \* parse_worksheet_content: worksheet_content
    hierarchy,              \* _generate_worksheet: hierarchy of one section
    item_out,               \* lines appended by the calls for the hierarchy's roots
    lines,                  \* parse_worksheet_content: lines
    i,                      \* parse_worksheet_content: i
    sections,               \* parse_worksheet_content: sections
    current_section,        \* parse_worksheet_content: current_section
    current_content,        \* parse_worksheet_content: current_content
    current_field,          \* parse_worksheet_content: current_field
    current_field_content   \* parse_worksheet_content: current_field_content

vars == <<pc, line, header, template, section, quantities, parsed_structure,
          section_structure, result, worksheet_content, hierarchy, item_out, lines,
          i, sections, current_section, current_content, current_field, current_field_content>>

-----------------------------------------------------------------------------
(* Python str and list primitives                                          *)

Whitespace == {" ", "\n", "\t"}

Digits == <<"0", "1", "2", "3", "4", "5", "6", "7", "8", "9">>

UpperCase == <<"A", "B", "C", "D", "E", "F", "G", "H", "I", "J", "K", "L", "M",
               "N", "O", "P", "Q", "R", "S", "T", "U", "V", "W", "X", "Y", "Z">>

LowerCase == <<"a", "b", "c", "d", "e", "f", "g", "h", "i", "j", "k", "l", "m",
               "n", "o", "p", "q", "r", "s", "t", "u", "v", "w", "x", "y", "z">>

IsDigit(c) == \E d \in 1..Len(Digits) : Digits[d] = c

DigitValue(c) == (CHOOSE d \in 1..Len(Digits) : Digits[d] = c) - 1

\* Index of the first element of s that is in chars, 0 when there is none.
find(s, chars) ==
    IF \E k \in 1..Len(s) : s[k] \in chars
    THEN CHOOSE k \in 1..Len(s) :
             s[k] \in chars /\ \A j \in 1..(k - 1) : s[j] \notin chars
    ELSE 0

\* s[n:]
drop(s, n) == SubSeq(s, n + 1, Len(s))

RECURSIVE lstrip_chars(_, _)
lstrip_chars(s, chars) ==
    IF s # <<>> /\ Head(s) \in chars THEN lstrip_chars(Tail(s), chars) ELSE s

RECURSIVE rstrip_chars(_, _)
rstrip_chars(s, chars) ==
    IF s # <<>> /\ s[Len(s)] \in chars
    THEN rstrip_chars(SubSeq(s, 1, Len(s) - 1), chars)
    ELSE s

\* s.strip(chars)
strip_chars(s, chars) == rstrip_chars(lstrip_chars(s, chars), chars)

\* s.strip()
strip(s) == strip_chars(s, Whitespace)

startswith(s, p) == Len(s) >= Len(p) /\ SubSeq(s, 1, Len(p)) = p

endswith(s, p) == Len(s) >= Len(p) /\ SubSeq(s, Len(s) - Len(p) + 1, Len(s)) = p

\* s.split(sep) for a one-character sep.
RECURSIVE split(_, _)
split(s, sep) ==
    LET p == find(s, {sep})
    IN  IF p = 0 THEN <<s>>
        ELSE <<SubSeq(s, 1, p - 1)>> \o split(drop(s, p), sep)

\* sep.join(xs) for a one-character sep.
RECURSIVE join(_, _)
join(sep, xs) ==
    IF xs = <<>> THEN <<>>
    ELSE IF Len(xs) = 1 THEN xs[1]
    ELSE xs[1] \o <<sep>> \o join(sep, Tail(xs))

\* c.lower()
lower_char(c) ==
    IF \E k \in 1..Len(UpperCase) : UpperCase[k] = c
    THEN LowerCase[CHOOSE k \in 1..Len(UpperCase) : UpperCase[k] = c]
    ELSE c

\* s.lower()
lower(s) == [k \in 1..Len(s) |-> lower_char(s[k])]

\* sub in s
contains(s, sub) ==
    \E k \in 0..(Len(s) - Len(sub)) : SubSeq(s, k + 1, k + Len(sub)) = sub

\* str(n) for n >= 0
RECURSIVE str(_)
str(n) == IF n < 10 THEN <<Digits[n + 1]>> ELSE str(n \div 10) \o <<Digits[(n % 10) + 1]>>

\* '#' * n
RECURSIVE hashes(_)
hashes(n) == IF n <= 0 THEN <<>> ELSE <<"#">> \o hashes(n - 1)

\* s.isdigit()
isdigit(s) == s # <<>> /\ \A k \in 1..Len(s) : IsDigit(s[k])

RECURSIVE digits_value(_)
digits_value(s) ==
    IF s = <<>> THEN 0
    ELSE 10 * digits_value(SubSeq(s, 1, Len(s) - 1)) + DigitValue(s[Len(s)])

\* int(s): surrounding whitespace is dropped and one sign is accepted before
\* the digits; anything else raises ValueError (ok = FALSE).
int(s) ==
    LET t == strip(s)
        signed == t # <<>> /\ t[1] \in {"+", "-"}
        d == IF signed THEN Tail(t) ELSE t
    IN  IF isdigit(d)
        THEN [ok |-> TRUE,
              value |-> IF signed /\ t[1] = "-" THEN 0 - digits_value(d)
                        ELSE digits_value(d)]
        ELSE [ok |-> FALSE, value |-> 0]

-----------------------------------------------------------------------------
(* _parse_cardinality and _parse_header_line                               *)

\* A cardinality dict; count, min and max are -1 where the dict has no such
\* key (or holds None).  type "error" stands for the raised ValueError.
CardinalityDict(type, count, min, max) ==
    [type |-> type, count |-> count, min |-> min, max |-> max]

CardinalityError == CardinalityDict("error", -1, -1, -1)

_parse_cardinality(cardinality_str) ==
    LET s == strip_chars(cardinality_str, {"[", "]"})
    IN  IF s = <<"*">> THEN CardinalityDict("unlimited", -1, 0, -1)
        ELSE IF isdigit(s) THEN CardinalityDict("fixed", int(s).value, -1, -1)
        ELSE IF contains(s, <<"-">>)
        THEN LET parts == split(s, "-")
             IN  IF Len(parts) # 2 THEN CardinalityError
                 ELSE IF ~int(parts[1]).ok \/ ~int(parts[2]).ok THEN CardinalityError
                 ELSE CardinalityDict("range", -1, int(parts[1]).value, int(parts[2]).value)
        ELSE CardinalityError

\* The match of
\*   ^([^|\[\$]+?)(?:\s*(\[[^\]]*\]))?(?:\s*(\$))?(?:\s*\|\s*(.*))?$
\* on content: group 1 runs to the first of | [ $ (it cannot hold one), the
\* bracket group to the first ], and what follows must be an optional $ and an
\* optional | with the notes.  A group that did not take part is <<>>, with
\* has2 and has3 telling whether groups 2 and 3 took part.
HeaderMatch(ok, g1, has2, g2, has3, g4) ==
    [ok |-> ok, g1 |-> g1, has2 |-> has2, g2 |-> g2, has3 |-> has3, g4 |-> g4]

NoHeaderMatch == HeaderMatch(FALSE, <<>>, FALSE, <<>>, FALSE, <<>>)

\* The tail of the pattern after the bracket group: (?:\s*(\$))?(?:\s*\|\s*(.*))?$
match_tail(g1, has2, g2, rest) ==
    LET r == lstrip_chars(rest, Whitespace)
    IN  IF rest = <<>> THEN HeaderMatch(TRUE, g1, has2, g2, FALSE, <<>>)
        ELSE IF r # <<>> /\ r[1] = "|"
        THEN HeaderMatch(TRUE, g1, has2, g2, FALSE, lstrip_chars(Tail(r), Whitespace))
        ELSE IF r # <<>> /\ r[1] = "$"
        THEN LET r2 == lstrip_chars(Tail(r), Whitespace)
             IN  IF Tail(r) = <<>> THEN HeaderMatch(TRUE, g1, has2, g2, TRUE, <<>>)
                 ELSE IF r2 # <<>> /\ r2[1] = "|"
                 THEN HeaderMatch(TRUE, g1, has2, g2, TRUE,
                                  lstrip_chars(Tail(r2), Whitespace))
                 ELSE NoHeaderMatch
        ELSE NoHeaderMatch

match_header(content) ==
    LET p == find(content, {"|", "[", "$"})
        g1 == IF p = 0 THEN content ELSE SubSeq(content, 1, p - 1)
        rest == IF p = 0 THEN <<>> ELSE drop(content, p - 1)
    IN  IF g1 = <<>> THEN NoHeaderMatch
        ELSE IF rest # <<>> /\ rest[1] = "["
        THEN LET q == find(rest, {"]"})
             IN  IF q = 0 THEN NoHeaderMatch
                 ELSE match_tail(g1, TRUE, SubSeq(rest, 1, q), drop(rest, q))
        ELSE match_tail(g1, FALSE, <<>>, rest)

\* Number of leading '#' of line.
RECURSIVE count_level(_)
count_level(s) == IF s # <<>> /\ Head(s) = "#" THEN 1 + count_level(Tail(s)) ELSE 0

Header(level, name, cardinality, required, notes, children) ==
    [type |-> "header", level |-> level, name |-> name, cardinality |-> cardinality,
     required |-> required, notes |-> notes, children |-> children]

\* Stands for the ValueError raised while a header line is parsed.
HeaderError ==
    [type |-> "error", level |-> 0, name |-> <<>>, cardinality |-> CardinalityError,
     required |-> FALSE, notes |-> <<>>, children |-> <<>>]

_parse_header_line(l) ==
    LET level == count_level(l)
        content == strip(drop(l, level))
        match == match_header(content)
        cardinality_str == IF match.has2 THEN match.g2 ELSE <<"[", "1", "]">>
        cardinality == _parse_cardinality(cardinality_str)
    IN  IF ~match.ok THEN HeaderError
        ELSE IF cardinality.type = "error" THEN HeaderError
        ELSE Header(level, strip(match.g1), cardinality, match.has3, match.g4, <<>>)

-----------------------------------------------------------------------------
(* _parse_template_structure, _find_section_structure                      *)

WorksheetSection(name, content) ==
    [type |-> "worksheet_section", name |-> name, content |-> content]

\* The loop of _parse_template_structure over the lines left, ls.  cur is the
\* index in structure of the dict current_section refers to, 0 for None: the
\* code appends to that dict in place.  ok = FALSE is the ValueError of
\* _parse_header_line leaving the function.
RECURSIVE parse_template_lines(_, _, _)
parse_template_lines(ls, structure, cur) ==
    IF ls = <<>> THEN [ok |-> TRUE, structure |-> structure]
    ELSE LET l == strip(Head(ls))
         IN  IF l = <<>> THEN parse_template_lines(Tail(ls), structure, cur)
             ELSE IF startswith(l, <<"-", " ">>)
             THEN parse_template_lines(
                      Tail(ls),
                      Append(structure, WorksheetSection(strip(drop(l, 2)), <<>>)),
                      Len(structure) + 1)
             ELSE IF startswith(l, <<"#">>)
             THEN LET parsed_header == _parse_header_line(l)
                  IN  IF parsed_header.type = "error"
                      THEN [ok |-> FALSE, structure |-> <<>>]
                      ELSE IF cur # 0
                      THEN parse_template_lines(
                               Tail(ls),
                               [structure EXCEPT ![cur].content = Append(@, parsed_header)],
                               cur)
                      ELSE parse_template_lines(Tail(ls), Append(structure, parsed_header), cur)
             ELSE parse_template_lines(Tail(ls), structure, cur)

\* A parser that skips a header line it cannot parse and goes on.
parse_template_structure_lenient(ls) ==
    parse_template_lines(
        SelectSeq(ls, LAMBDA l : ~(startswith(strip(l), <<"#">>)
                                   /\ _parse_header_line(strip(l)).type = "error")),
        <<>>, 0)

_parse_template_structure(ls) == parse_template_lines(ls, <<>>, 0)

\* found = FALSE is the returned None.
RECURSIVE _find_section_structure(_, _)
_find_section_structure(structure, section_name) ==
    IF structure = <<>> THEN [found |-> FALSE, content |-> <<>>]
    ELSE IF Head(structure).type = "worksheet_section" /\ Head(structure).name = section_name
    THEN [found |-> TRUE, content |-> Head(structure).content]
    ELSE _find_section_structure(Tail(structure), section_name)

_filter_content_structure(structure) == structure

-----------------------------------------------------------------------------
(* _build_hierarchy                                                        *)

\* The node reached from the list nodes by path, a sequence of 1-based
\* positions: first in nodes, then in each node's children.
RECURSIVE node_at(_, _)
node_at(nodes, path) ==
    IF Len(path) = 1 THEN nodes[path[1]]
    ELSE node_at(nodes[path[1]].children, Tail(path))

\* nodes after item is appended to the children of the node at path: the
\* code's stack[-1]['children'].append(item) on the shared dict.
RECURSIVE append_child(_, _, _)
append_child(nodes, path, item) ==
    IF path = <<>> THEN Append(nodes, item)
    ELSE [nodes EXCEPT ![path[1]].children = append_child(@, Tail(path), item)]

\* A pop that leaves an entry of the same level on the stack.
RECURSIVE pop_stack_strict(_, _)
pop_stack_strict(stack, level) ==
    IF stack # <<>> /\ stack[Len(stack)].level > level
    THEN pop_stack_strict(SubSeq(stack, 1, Len(stack) - 1), level)
    ELSE stack

\* while stack and stack[-1]['level'] >= level: stack.pop()
RECURSIVE pop_stack(_, _)
pop_stack(stack, level) ==
    IF stack # <<>> /\ stack[Len(stack)].level >= level
    THEN pop_stack(SubSeq(stack, 1, Len(stack) - 1), level)
    ELSE stack

\* The loop of _build_hierarchy; a stack entry holds the level of the dict
\* it refers to and the path to it from root_items.
RECURSIVE build_hierarchy_loop(_, _, _)
build_hierarchy_loop(structure, root_items, stack) ==
    IF structure = <<>> THEN root_items
    ELSE LET item == Head(structure)
             level == item.level
             popped == pop_stack(stack, level)
             parent == IF popped = <<>> THEN <<>> ELSE popped[Len(popped)].path
             siblings == IF popped = <<>> THEN root_items
                         ELSE node_at(root_items, parent).children
             path == Append(parent, Len(siblings) + 1)
         IN  build_hierarchy_loop(
                 Tail(structure),
                 append_child(root_items, parent, item),
                 Append(popped, [level |-> level, path |-> path]))

_build_hierarchy(structure) == build_hierarchy_loop(structure, <<>>, <<>>)

-----------------------------------------------------------------------------
(* _generate_item_output, _generate_worksheet                              *)

DefaultUnlimited == 2

\* d.get(key, default)
dict_get(d, key, default) == IF key \in DOMAIN d THEN d[key] ELSE default

\* A count that lets the override apply whatever the cardinality type.
instance_count_any_override(item, quants, path_key) ==
    IF item.cardinality.type = "unlimited" THEN dict_get(quants, path_key, DefaultUnlimited)
    ELSE IF item.cardinality.type = "range"
    THEN dict_get(quants, path_key, item.cardinality.min)
    ELSE dict_get(quants, path_key, item.cardinality.count)

\* count of _generate_item_output: how many instances to generate.
instance_count(item, quants, path_key) ==
    IF item.cardinality.type = "unlimited" THEN dict_get(quants, path_key, DefaultUnlimited)
    ELSE IF item.cardinality.type = "range"
    THEN dict_get(quants, path_key, item.cardinality.min)
    ELSE item.cardinality.count

\* A header that numbers the instances of every level-2 container.
container_header_always_numbered(item, idx) ==
    IF item.level = 2
    THEN hashes(item.level) \o <<" ">> \o item.name \o <<" ">> \o str(idx + 1)
    ELSE hashes(item.level) \o <<" ">> \o item.name

\* The header line of instance idx (0-based) of a repeated container.
container_header(item, idx) ==
    IF item.level = 2 /\ contains(lower(item.name), <<"c", "h", "a", "p", "t", "e", "r">>)
    THEN hashes(item.level) \o <<" ">> \o item.name \o <<" ">> \o str(idx + 1)
    ELSE hashes(item.level) \o <<" ">> \o item.name

\* The lines _generate_item_output(item, result, quantities, path) appends to
\* result.
RECURSIVE _generate_item_output(_, _, _)
RECURSIVE generate_children(_, _, _)
RECURSIVE generate_instances(_, _, _, _, _)

generate_children(children, quants, current_path) ==
    IF children = <<>> THEN <<>>
    ELSE _generate_item_output(Head(children), quants, current_path)
         \o generate_children(Tail(children), quants, current_path)

\* A loop that emits the blank line of a level-1 container once, after the
\* last instance.
RECURSIVE generate_instances_one_blank(_, _, _, _, _)
generate_instances_one_blank(item, quants, current_path, idx, count) ==
    IF idx >= count
    THEN (IF item.children # <<>> /\ item.level = 1 /\ count > 0 THEN <<<<>>>> ELSE <<>>)
    ELSE (IF item.children # <<>>
          THEN <<container_header(item, idx)>>
               \o generate_children(item.children, quants, current_path)
          ELSE <<hashes(item.level) \o <<" ">> \o item.name \o <<" ", "|", " ">>>>)
         \o generate_instances_one_blank(item, quants, current_path, idx + 1, count)

\* for i in range(count), from i = idx on.
generate_instances(item, quants, current_path, idx, count) ==
    IF idx >= count THEN <<>>
    ELSE (IF item.children # <<>>
          THEN <<container_header(item, idx)>>
               \o generate_children(item.children, quants, current_path)
               \o (IF item.level = 1 THEN <<<<>>>> ELSE <<>>)
          ELSE <<hashes(item.level) \o <<" ">> \o item.name \o <<" ", "|", " ">>>>)
         \o generate_instances(item, quants, current_path, idx + 1, count)

_generate_item_output(item, quants, path) ==
    LET current_path == Append(path, item.name)
        path_key == join(".", current_path)
        count == instance_count(item, quants, path_key)
    IN  IF count = 1 /\ item.children = <<>>
        THEN <<hashes(item.level) \o <<" ">> \o item.name \o <<" ", "|", " ">>>>
             \o (IF item.level = 1 THEN <<<<>>>> ELSE <<>>)
        ELSE IF count = 1
        THEN <<hashes(item.level) \o <<" ">> \o item.name>>
             \o (IF item.level = 1 THEN <<<<>>>> ELSE <<>>)
             \o generate_children(item.children, quants, current_path)
        ELSE generate_instances(item, quants, current_path, 0, count)

\* The lines generated for the content of one worksheet section: its
\* hierarchy is built and each root is generated with an empty path.
section_content_lines(content, quants) ==
    generate_children(_build_hierarchy(content), quants, <<>>)

\* The loop of _generate_worksheet over the items left, with the result list
\* so far.
RECURSIVE generate_worksheet_loop(_, _, _)
generate_worksheet_loop(structure, quants, res) ==
    IF structure = <<>> THEN res
    ELSE LET item == Head(structure)
         IN  IF item.type = "worksheet_section"
             THEN generate_worksheet_loop(
                      Tail(structure), quants,
                      res \o (IF res # <<>> THEN <<<<>>>> ELSE <<>>)
                          \o <<<<"#", " ">> \o item.name, <<"-", "-", "-">>>>
                          \o section_content_lines(item.content, quants))
             ELSE IF item.type = "header"
             THEN generate_worksheet_loop(
                      Tail(structure), quants,
                      res \o _generate_item_output(item, quants, <<>>))
             ELSE generate_worksheet_loop(Tail(structure), quants, res)

_generate_worksheet(structure, quants) ==
    join("\n", generate_worksheet_loop(structure, quants, <<>>))

-----------------------------------------------------------------------------
(* parse_worksheet_content: the field pattern and _finalize_section        *)

\* The match of ^(#+)\s*(.+?)\s*\|\s*(.*)$ on l, a line that starts with '#':
\* group 2 starts at the first offset st, tried from the end of the greedy
\* (#+)\s* backwards, from which a pipe can still follow, and ends at the
\* first offset e from which only whitespace precedes a pipe.
field_match(l) ==
    LET h == count_level(l)
        ws == Len(drop(l, h)) - Len(lstrip_chars(drop(l, h), Whitespace))
        Ends(st) == {e \in (st + 1)..Len(l) :
                        LET r == lstrip_chars(drop(l, e), Whitespace)
                        IN  r # <<>> /\ r[1] = "|"}
        starts == {st \in 1..(h + ws) : Ends(st) # {}}
    IN  IF starts = {} THEN [ok |-> FALSE, name |-> <<>>]
        ELSE LET st == CHOOSE a \in starts : \A b \in starts : b <= a
                 e == CHOOSE a \in Ends(st) : \A b \in Ends(st) : a <= b
             IN  [ok |-> TRUE, name |-> strip(SubSeq(l, st + 1, e))]

\* A commit that keeps the value a field name already has.
commit_field_keep_first(fields, name, content) ==
    fields @@ (name :> strip(join("\n", content)))

\* current_section['fields'][current_field] = '\n'.join(current_field_content).strip()
commit_field(fields, name, content) ==
    (name :> strip(join("\n", content))) @@ fields

\* A finalisation that forgets the field still open.
finalize_section_without_last_field(secs, cur_section, content, field, field_content) ==
    (cur_section.title :>
        [title |-> cur_section.title,
         content |-> join("\n", content),
         fields |-> cur_section.fields]) @@ secs

\* sections after _finalize_section(sections, current_section, current_content,
\* current_field, current_field_content).
_finalize_section(secs, cur_section, content, field, field_content) ==
    (cur_section.title :>
        [title |-> cur_section.title,
         content |-> join("\n", content),
         fields |-> IF field # <<>>
                    THEN commit_field(cur_section.fields, field, field_content)
                    ELSE cur_section.fields]) @@ secs

-----------------------------------------------------------------------------
(* Values of the variables a specification does not use                    *)

EmptyDict == [k \in {} |-> <<>>]

NoResult == [kind |-> "none", text |-> <<>>]

NoSection == [open |-> FALSE, title |-> <<>>, fields |-> EmptyDict]

HeaderIdle ==
    /\ line = <<>>
    /\ header = HeaderError

ExpandIdle ==
    /\ template = <<>>
    /\ section = <<>>
    /\ quantities = EmptyDict
    /\ parsed_structure = <<>>
    /\ section_structure = <<>>
    /\ result = NoResult

ItemIdle ==
    /\ hierarchy = <<>>
    /\ item_out = <<>>

WorksheetIdle ==
    /\ worksheet_content = <<>>
    /\ lines = <<>>
    /\ i = 0
    /\ sections = EmptyDict
    /\ current_section = NoSection
    /\ current_content = <<>>
    /\ current_field = <<>>
    /\ current_field_content = <<>>

headerVars == <<line, header>>

expandVars == <<template, section, quantities, parsed_structure, section_structure, result>>

itemVars == <<hierarchy, item_out>>

worksheetVars == <<worksheet_content, lines, i, sections, current_section, current_content,
                   current_field, current_field_content>>

\* All sequences over S of length at most n.
SeqsUpTo(S, n) == UNION {[1..m -> S] : m \in 0..n}

-----------------------------------------------------------------------------
(* SpecHeader: _parse_header_line applied to one header line               *)

MaxBody == 4

BodyChars == {"*", "2", "-", "+", "[", "a", " "}

\* What follows the bracket on the line.
HeaderSuffixes == {<<>>, <<" ", "$">>, <<" ", "|", " ", "n">>}

HeaderLines ==
    {<<"#", "#", "#", " ", "F", " ", "[">> \o b \o <<"]">> \o s :
        b \in SeqsUpTo(BodyChars, MaxBody), s \in HeaderSuffixes}

InitHeader ==
    /\ pc = "header"
    /\ line \in HeaderLines
    /\ header = HeaderError
    /\ ExpandIdle /\ ItemIdle /\ WorksheetIdle

ParseHeaderLine ==
    /\ pc = "header"
    /\ header' = _parse_header_line(line)
    /\ pc' = "header_done"
    /\ UNCHANGED <<line, expandVars, itemVars, worksheetVars>>

NextHeader == ParseHeaderLine

SpecHeader == InitHeader /\ [][NextHeader]_vars

\* The bracket body of the line: the text between the first [ and the first ]
\* after it.
BodyOf(l) ==
    LET a == find(l, {"["})
        r == drop(l, a)
    IN  SubSeq(r, 1, find(r, {"]"}) - 1)

AllDigits(b) == b # <<>> /\ \A k \in 1..Len(b) : b[k] \in {"0", "1", "2", "3", "4", "5", "6", "7", "8", "9"}

RECURSIVE Decimal(_)
Decimal(b) ==
    IF b = <<>> THEN 0
    ELSE 10 * Decimal(SubSeq(b, 1, Len(b) - 1))
         + (CHOOSE d \in 0..9 : Digits[d + 1] = b[Len(b)])

IsDigitsDashDigits(b) ==
    \E k \in 2..(Len(b) - 1) :
        /\ b[k] = "-"
        /\ AllDigits(SubSeq(b, 1, k - 1))
        /\ AllDigits(SubSeq(b, k + 1, Len(b)))

DashAt(b) == CHOOSE k \in 1..Len(b) : b[k] = "-"

\* C6: a bracket body * yields Unlimited, digits yield Fixed(int(b)),
\* digits-digits yields Range(min, max), and every other body makes
\* _parse_header_line fail with the format error.
C6_CardinalityGrammar ==
    pc = "header_done" =>
        LET b == BodyOf(line)
        IN  IF b = <<"*">>
            THEN header.type = "header" /\ header.cardinality.type = "unlimited"
            ELSE IF AllDigits(b)
            THEN /\ header.type = "header"
                 /\ header.cardinality.type = "fixed"
                 /\ header.cardinality.count = Decimal(b)
            ELSE IF IsDigitsDashDigits(b)
            THEN /\ header.type = "header"
                 /\ header.cardinality.type = "range"
                 /\ header.cardinality.min = Decimal(SubSeq(b, 1, DashAt(b) - 1))
                 /\ header.cardinality.max = Decimal(SubSeq(b, DashAt(b) + 1, Len(b)))
            ELSE header.type = "error"

-----------------------------------------------------------------------------
(* SpecExpand: parse_llm_md(template, section, quantities)                 *)

MaxTemplateLines == 4

MaxQuantity == 3

\* "- S", "- T": worksheet section separators
LineSectionS == <<"-", " ", "S">>
LineSectionT == <<"-", " ", "T">>
\* "# P": a level-1 header, Fixed(1) by default
LineP == <<"#", " ", "P">>
\* "## C [*]": a level-2 header of unlimited cardinality
LineC == <<"#", "#", " ", "C", " ", "[", "*", "]">>
\* "### N $": a required level-3 header
LineN == <<"#", "#", "#", " ", "N", " ", "$">>
\* "### F [abc]": a header line with a cardinality that is none
LineBad == <<"#", "#", "#", " ", "F", " ", "[", "a", "b", "c", "]">>

TemplateLines == {LineSectionS, LineSectionT, LineP, LineC, LineN, LineBad}

\* None, "S", "X" (no template has a section X) and "".
SectionArgs == {<<>>, <<<<"S">>>>, <<<<"X">>>>, <<<<>>>>}

KeyPC == <<"P", ".", "C">>
KeyC == <<"C">>
KeySPC == <<"S", ".", "P", ".", "C">>

ExpandQuantities ==
    {EmptyDict, KeyPC :> 0, KeyPC :> MaxQuantity, KeyC :> MaxQuantity, KeySPC :> MaxQuantity}

InitExpand ==
    /\ pc = "start"
    /\ \E ls \in SeqsUpTo(TemplateLines, MaxTemplateLines) : template = join("\n", ls)
    /\ section \in SectionArgs
    /\ quantities \in ExpandQuantities
    /\ parsed_structure = <<>>
    /\ section_structure = <<>>
    /\ result = NoResult
    /\ HeaderIdle /\ ItemIdle /\ WorksheetIdle

\* if section: (None and "" are both false)
SectionGiven == section # <<>> /\ section[1] # <<>>

\* parse_llm_md, lines 20-21: the whole template is parsed first.
ParseTemplate ==
    /\ pc = "start"
    /\ LET parsed == _parse_template_structure(split(strip(template), "\n"))
       IN  IF parsed.ok
           THEN /\ parsed_structure' = parsed.structure
                /\ result' = result
                /\ pc' = "parsed"
           ELSE /\ parsed_structure' = parsed_structure
                /\ result' = [kind |-> "FormatError", text |-> <<>>]
                /\ pc' = "raised"
    /\ UNCHANGED <<template, section, quantities, section_structure,
                   headerVars, itemVars, worksheetVars>>

\* parse_llm_md, lines 23-27: the section lookup and its error.
FindSection ==
    /\ pc = "parsed"
    /\ SectionGiven
    /\ LET found == _find_section_structure(parsed_structure, section[1])
       IN  IF ~found.found \/ found.content = <<>>
           THEN /\ section_structure' = section_structure
                /\ result' = [kind |-> "SectionNotFound", text |-> <<>>]
                /\ pc' = "raised"
           ELSE /\ section_structure' = found.content
                /\ result' = result
                /\ pc' = "found"
    /\ UNCHANGED <<template, section, quantities, parsed_structure,
                   headerVars, itemVars, worksheetVars>>

\* parse_llm_md, line 28
GenerateSection ==
    /\ pc = "found"
    /\ result' = [kind |-> "ok", text |-> _generate_worksheet(section_structure, quantities)]
    /\ pc' = "returned"
    /\ UNCHANGED <<template, section, quantities, parsed_structure, section_structure,
                   headerVars, itemVars, worksheetVars>>

\* parse_llm_md, lines 29-32
GenerateFull ==
    /\ pc = "parsed"
    /\ ~SectionGiven
    /\ result' = [kind |-> "ok",
                  text |-> _generate_worksheet(_filter_content_structure(parsed_structure),
                                               quantities)]
    /\ pc' = "returned"
    /\ UNCHANGED <<template, section, quantities, parsed_structure, section_structure,
                   headerVars, itemVars, worksheetVars>>

NextExpand == ParseTemplate \/ FindSection \/ GenerateSection \/ GenerateFull

SpecExpand == InitExpand /\ [][NextExpand]_vars

-----------------------------------------------------------------------------
(* Claims on parse_llm_md                                                  *)

\* The lines of the template as written, before any stripping.
RawLines == split(template, "\n")

IsSectionLine(l) == l \in {LineSectionS, LineSectionT}

\* The name a section line gives its section.
SectionNameOf(l) == drop(l, 2)

TemplateSectionNames == {SectionNameOf(RawLines[k]) : k \in {m \in 1..Len(RawLines) : IsSectionLine(RawLines[m])}}

\* The positions of the template lines a call generates from: with a section
\* argument the lines of the first section of that name, else all lines.
FirstSectionLine(name) ==
    CHOOSE k \in 1..Len(RawLines) :
        /\ RawLines[k] = <<"-", " ">> \o name
        /\ \A j \in 1..(k - 1) : RawLines[j] # <<"-", " ">> \o name

Scope ==
    IF SectionGiven
    THEN LET a == FirstSectionLine(section[1])
         IN  {k \in (a + 1)..Len(RawLines) : \A j \in (a + 1)..k : ~IsSectionLine(RawLines[j])}
    ELSE 1..Len(RawLines)

\* The header at position k is nested under a root header "# P": P precedes
\* it with only deeper headers in between.
UnderP(k) ==
    \E j \in 1..(k - 1) :
        /\ RawLines[j] = LineP
        /\ \A m \in (j + 1)..(k - 1) : RawLines[m] \in {LineC, LineN}

OutputLines == split(result.text, "\n")

CountWhere(seq, Test(_)) == Cardinality({k \in 1..Len(seq) : Test(seq[k])})

IsChildLine(l) == startswith(l, <<"#", "#", " ", "C">>)

\* C1: with a section argument S the output is, line for line, the content
\* the full worksheet holds for section S (hierarchy built, no wrapper lines).
C1_SectionOutputIsSectionContent ==
    (pc = "returned" /\ SectionGiven) =>
        result.text = join("\n", section_content_lines(section_structure, quantities))

\* C2: quantities {"P.C": n} makes every [*] header C nested under a root P
\* come out as exactly n blocks per P, in a section or not, with a section
\* argument or not.
C2_ParentChildQuantity ==
    (/\ pc = "returned"
     /\ KeyPC \in DOMAIN quantities
     /\ \A k \in Scope : RawLines[k] = LineC => UnderP(k)) =>
        CountWhere(OutputLines, IsChildLine)
            = quantities[KeyPC] * Cardinality({k \in Scope : RawLines[k] = LineC})

\* C4: with a section argument S (here: a non-empty S) the call fails with the
\* section-not-found error exactly when the template has no section named S.
C4_SectionNotFoundExactly ==
    (/\ pc \in {"returned", "raised"}
     /\ section # <<>> /\ section[1] # <<>>
     /\ result.kind # "FormatError") =>
        (result.kind = "SectionNotFound" <=> section[1] \notin TemplateSectionNames)

\* C5: a malformed header line anywhere in the template makes the call fail
\* with the format error, whatever the section argument.
C5_EagerFormatError ==
    (pc # "start" /\ \E k \in 1..Len(RawLines) : RawLines[k] = LineBad) =>
        (pc = "raised" /\ result.kind = "FormatError")

\* C5 witness: the call has failed with the format error although the section
\* asked for exists and the malformed line is in another section.
C5_Witness ==
    /\ pc = "raised"
    /\ result.kind = "FormatError"
    /\ section = <<<<"S">>>>
    /\ template = join("\n", <<LineSectionS, LineN, LineSectionT, LineBad>>)

-----------------------------------------------------------------------------
(* SpecItem: _generate_worksheet's work on one section: the hierarchy of   *)
(* its content is built and _generate_item_output runs on each root        *)

MaxItemLines == 3

\* "## Chapter [*]", "### K [3-5]", "# A [4]"
LineChapter == <<"#", "#", " ", "C", "h", "a", "p", "t", "e", "r", " ", "[", "*", "]">>
LineK == <<"#", "#", "#", " ", "K", " ", "[", "3", "-", "5", "]">>
LineA == <<"#", " ", "A", " ", "[", "4", "]">>

ItemLines == {LineP, LineC, LineChapter, LineN, LineK, LineA}

ItemNames == {<<"P">>, <<"C">>, <<"C", "h", "a", "p", "t", "e", "r">>, <<"N">>, <<"K">>, <<"A">>}

\* The dotted paths of d names.
RECURSIVE DottedKeys(_)
DottedKeys(d) ==
    IF d = 1 THEN ItemNames
    ELSE {a \o <<".">> \o b : a \in DottedKeys(d - 1), b \in ItemNames}

\* No override, or the same override n for every path of one depth.
ItemQuantities ==
    {EmptyDict} \cup
    {[key \in DottedKeys(d) |-> n] : d \in 1..MaxItemLines, n \in {0, 1, MaxQuantity}}

InitItem ==
    /\ pc = "build"
    /\ \E ls \in SeqsUpTo(ItemLines, MaxItemLines) :
           section_structure = [k \in 1..Len(ls) |-> _parse_header_line(ls[k])]
    /\ quantities \in ItemQuantities
    /\ template = <<>>
    /\ section = <<>>
    /\ parsed_structure = <<>>
    /\ result = NoResult
    /\ hierarchy = <<>>
    /\ item_out = <<>>
    /\ HeaderIdle /\ WorksheetIdle

\* _generate_worksheet, line 144
BuildHierarchy ==
    /\ pc = "build"
    /\ hierarchy' = _build_hierarchy(section_structure)
    /\ pc' = "items"
    /\ UNCHANGED <<item_out, expandVars, headerVars, worksheetVars>>

\* _generate_worksheet, lines 147-148: one turn of the loop over the roots;
\* item_out holds, per root done, the lines its call appended.
GenerateItem ==
    /\ pc = "items"
    /\ Len(item_out) < Len(hierarchy)
    /\ item_out' = Append(item_out,
                          _generate_item_output(hierarchy[Len(item_out) + 1], quantities, <<>>))
    /\ UNCHANGED <<pc, hierarchy, expandVars, headerVars, worksheetVars>>

NextItem == BuildHierarchy \/ GenerateItem

SpecItem == InitItem /\ [][NextItem]_vars

\* The effective count as the claim gives it, for a node whose dotted path is
\* key.
ClaimedCount(node, key) ==
    CASE node.cardinality.type = "unlimited" ->
             IF key \in DOMAIN quantities THEN quantities[key] ELSE 2
      [] node.cardinality.type = "range" ->
             IF key \in DOMAIN quantities THEN quantities[key] ELSE node.cardinality.min
      [] OTHER -> node.cardinality.count

\* How many nodes of the trees in nodes have this level and name.
RECURSIVE NodesLike(_, _, _)
NodesLike(nodes, level, name) ==
    IF nodes = <<>> THEN 0
    ELSE (IF Head(nodes).level = level /\ Head(nodes).name = name THEN 1 ELSE 0)
         + NodesLike(Head(nodes).children, level, name)
         + NodesLike(Tail(nodes), level, name)

BaseLine(node) == hashes(node.level) \o <<" ">> \o node.name

\* l is a line emitted for an instance of node: its bare header, its header
\* with a number, or its blank field line.
IsLineOf(node, l) ==
    \/ l = BaseLine(node)
    \/ l = BaseLine(node) \o <<" ", "|", " ">>
    \/ /\ startswith(l, BaseLine(node) \o <<" ">>)
       /\ AllDigits(drop(l, Len(BaseLine(node)) + 1))

\* The lines of out emitted for node, in order.
LinesOf(node, out) == SelectSeq(out, LAMBDA l : IsLineOf(node, l))

\* Every node of the trees in nodes, whose level and name no other node of
\* root shares, has ClaimedCount instances per instance of its parent; times
\* is the number of instances of the parent.
RECURSIVE CountsAsClaimed(_, _, _, _, _)
CountsAsClaimed(nodes, prefix, times, root, out) ==
    \A k \in 1..Len(nodes) :
        LET node == nodes[k]
            key == IF prefix = <<>> THEN node.name ELSE prefix \o <<".">> \o node.name
            n == ClaimedCount(node, key)
        IN  /\ NodesLike(<<root>>, node.level, node.name) = 1
                => Len(LinesOf(node, out)) = times * n
            /\ CountsAsClaimed(node.children, key, times * n, root, out)

\* C3: every header node is emitted as many times as its effective count:
\* the override for its dotted path, else 2, for [*]; the override, else the
\* minimum, for a range; always n for a fixed [n].
C3_EffectiveCount ==
    \A r \in 1..Len(item_out) :
        CountsAsClaimed(<<hierarchy[r]>>, <<>>, 1, hierarchy[r], item_out[r])

\* C3 witness: a root "# A [4]" has come out 4 times although the quantities
\* hold an override 1 for its path, above a [*] child that came out twice each.
C3_Witness ==
    /\ section_structure = <<_parse_header_line(LineA), _parse_header_line(LineC)>>
    /\ quantities = [key \in DottedKeys(1) |-> 1]
    /\ Len(item_out) = 1
    /\ Len(LinesOf(hierarchy[1], item_out[1])) = 4
    /\ Len(LinesOf(hierarchy[1].children[1], item_out[1])) = 8

\* Whether the lowercased name contains "chapter", letter by letter.
NamesAChapter(name) ==
    \E k \in 1..(Len(name) - 6) :
        /\ name[k] \in {"c", "C"} /\ name[k + 1] \in {"h", "H"} /\ name[k + 2] \in {"a", "A"}
        /\ name[k + 3] \in {"p", "P"} /\ name[k + 4] \in {"t", "T"} /\ name[k + 5] \in {"e", "E"}
        /\ name[k + 6] \in {"r", "R"}

\* The decimal numeral of n, 1 <= n <= 99.
Numeral(n) ==
    IF n < 10 THEN <<Digits[n + 1]>> ELSE <<Digits[(n \div 10) + 1], Digits[(n % 10) + 1]>>

\* Every node with children of the trees in nodes, whose level and name no
\* other node of root shares, has the header lines C8 gives it: numbered 1..n
\* for each instance of the parent if it is a level-2 chapter with n > 1,
\* else n bare headers.
RECURSIVE HeadersAsClaimed(_, _, _, _, _)
HeadersAsClaimed(nodes, prefix, times, root, out) ==
    \A k \in 1..Len(nodes) :
        LET node == nodes[k]
            key == IF prefix = <<>> THEN node.name ELSE prefix \o <<".">> \o node.name
            n == ClaimedCount(node, key)
            hs == LinesOf(node, out)
        IN  /\ (node.children # <<>> /\ NodesLike(<<root>>, node.level, node.name) = 1) =>
                /\ Len(hs) = times * n
                /\ \A j \in 1..Len(hs) :
                       hs[j] = IF node.level = 2 /\ NamesAChapter(node.name) /\ n > 1
                               THEN BaseLine(node) \o <<" ">> \o Numeral(((j - 1) % n) + 1)
                               ELSE BaseLine(node)
            /\ HeadersAsClaimed(node.children, key, times * n, root, out)

\* C8: a level-2 header with children whose name contains "chapter" and whose
\* count n exceeds 1 comes out as "## <name> 1" .. "## <name> n" in order; a
\* header with children at another level, or at level 2 under another name,
\* comes out as n identical headers with no number.
C8_ChapterNumbering ==
    \A r \in 1..Len(item_out) :
        HeadersAsClaimed(<<hierarchy[r]>>, <<>>, 1, hierarchy[r], item_out[r])

\* C8 witness: a root "## Chapter [*]" with a child and the override 3 has
\* come out as "## Chapter 1", "## Chapter 2", "## Chapter 3".
C8_Witness ==
    /\ section_structure = <<_parse_header_line(LineChapter), _parse_header_line(LineN)>>
    /\ quantities = [key \in DottedKeys(1) |-> MaxQuantity]
    /\ Len(item_out) = 1
    /\ LinesOf(hierarchy[1], item_out[1])
           = [j \in 1..MaxQuantity |-> <<"#", "#", " ", "C", "h", "a", "p", "t", "e", "r", " ">>
                                        \o Numeral(j)]

-----------------------------------------------------------------------------
(* parse_worksheet_content: one action per branch of its loop              *)

\* line = lines[i].strip(), with the 0-based i of the code
CurrentLine == strip(lines[i + 1])

\* line.startswith('# ') and i + 1 < len(lines) and lines[i + 1].strip() == '---'
AtSectionHeader ==
    /\ startswith(CurrentLine, <<"#", " ">>)
    /\ i + 1 < Len(lines)
    /\ strip(lines[i + 2]) = <<"-", "-", "-">>

\* lines 257-264
BeginParse ==
    /\ pc = "ws_start"
    /\ lines' = split(strip(worksheet_content), "\n")
    /\ sections' = EmptyDict
    /\ current_section' = NoSection
    /\ current_content' = <<>>
    /\ current_field' = <<>>
    /\ current_field_content' = <<>>
    /\ i' = 0
    /\ pc' = "scan"
    /\ UNCHANGED <<worksheet_content, expandVars, headerVars, itemVars>>

\* lines 269-285
OpenSection ==
    /\ pc = "scan"
    /\ i < Len(lines)
    /\ AtSectionHeader
    /\ sections' = IF current_section.open
                   THEN _finalize_section(sections, current_section, current_content,
                                          current_field, current_field_content)
                   ELSE sections
    /\ current_section' = [open |-> TRUE, title |-> strip(drop(CurrentLine, 2)),
                           fields |-> EmptyDict]
    /\ current_content' = <<CurrentLine, lines[i + 2]>>
    /\ current_field' = <<>>
    /\ current_field_content' = <<>>
    /\ i' = i + 2
    /\ UNCHANGED <<pc, lines, worksheet_content, expandVars, headerVars, itemVars>>

\* lines 288-300 and 319
FieldHeader ==
    /\ pc = "scan"
    /\ i < Len(lines)
    /\ ~AtSectionHeader
    /\ startswith(CurrentLine, <<"#">>)
    /\ endswith(CurrentLine, <<"|">>)
    /\ current_section' =
           IF current_field # <<>> /\ current_section.open
           THEN [current_section EXCEPT
                     !.fields = commit_field(@, current_field, current_field_content)]
           ELSE current_section
    /\ LET header_match == field_match(CurrentLine)
       IN  IF header_match.ok
           THEN /\ current_field' = header_match.name
                /\ current_field_content' = <<>>
                /\ current_content' = Append(current_content, CurrentLine)
           ELSE UNCHANGED <<current_field, current_field_content, current_content>>
    /\ i' = i + 1
    /\ UNCHANGED <<pc, lines, sections, worksheet_content, expandVars, headerVars, itemVars>>

\* lines 303-311 and 319
StructuralHeader ==
    /\ pc = "scan"
    /\ i < Len(lines)
    /\ ~AtSectionHeader
    /\ startswith(CurrentLine, <<"#">>)
    /\ ~endswith(CurrentLine, <<"|">>)
    /\ IF current_field # <<>> /\ current_section.open
       THEN /\ current_section' =
                   [current_section EXCEPT
                        !.fields = commit_field(@, current_field, current_field_content)]
            /\ current_field' = <<>>
            /\ current_field_content' = <<>>
       ELSE UNCHANGED <<current_section, current_field, current_field_content>>
    /\ current_content' = Append(current_content, CurrentLine)
    /\ i' = i + 1
    /\ UNCHANGED <<pc, lines, sections, worksheet_content, expandVars, headerVars, itemVars>>

\* lines 314-319
ContentLine ==
    /\ pc = "scan"
    /\ i < Len(lines)
    /\ ~AtSectionHeader
    /\ ~startswith(CurrentLine, <<"#">>)
    /\ current_content' = Append(current_content, CurrentLine)
    /\ current_field_content' = IF current_field # <<>>
                                THEN Append(current_field_content, CurrentLine)
                                ELSE current_field_content
    /\ i' = i + 1
    /\ UNCHANGED <<pc, lines, sections, current_section, current_field, worksheet_content,
                   expandVars, headerVars, itemVars>>

\* lines 321-328, with section_name None: the sections are returned.
FinishParse ==
    /\ pc = "scan"
    /\ i >= Len(lines)
    /\ sections' = IF current_section.open
                   THEN _finalize_section(sections, current_section, current_content,
                                          current_field, current_field_content)
                   ELSE sections
    /\ pc' = "ws_done"
    /\ UNCHANGED <<lines, i, current_section, current_content, current_field,
                   current_field_content, worksheet_content, expandVars, headerVars, itemVars>>

-----------------------------------------------------------------------------
(* SpecWorksheet: parse_worksheet_content(worksheet_content)               *)

MaxWorksheetLines == 4

\* "# S", "---": the two lines that open a section S
WsTitle == <<"#", " ", "S">>
WsRule == <<"-", "-", "-">>
\* "### A |": a field header; "### A | v": the same filled in on its line
WsField == <<"#", "#", "#", " ", "A", " ", "|">>
WsFilled == <<"#", "#", "#", " ", "A", " ", "|", " ", "v">>
\* "## H": a header that is no field; "#|": a header with a pipe and no name
WsHeader == <<"#", "#", " ", "H">>
WsBarePipe == <<"#", "|">>
\* "x": a line of text; "": a blank line
WsText == <<"x">>
WsBlank == <<>>

WorksheetLines == {WsTitle, WsRule, WsField, WsFilled, WsHeader, WsBarePipe, WsText, WsBlank}

\* What precedes the first section: nothing, or a field with its text.
WorksheetPreambles == {<<>>, <<WsField, WsText>>}

InitWorksheet ==
    /\ pc = "ws_start"
    /\ \E pre \in WorksheetPreambles, ls \in SeqsUpTo(WorksheetLines, MaxWorksheetLines) :
           worksheet_content = join("\n", pre \o <<WsTitle, WsRule>> \o ls)
    /\ lines = <<>>
    /\ i = 0
    /\ sections = EmptyDict
    /\ current_section = NoSection
    /\ current_content = <<>>
    /\ current_field = <<>>
    /\ current_field_content = <<>>
    /\ HeaderIdle /\ ExpandIdle /\ ItemIdle

NextWorksheet ==
    BeginParse \/ OpenSection \/ FieldHeader \/ StructuralHeader \/ ContentLine \/ FinishParse

SpecWorksheet == InitWorksheet /\ [][NextWorksheet]_vars

-----------------------------------------------------------------------------
(* Claims on parse_worksheet_content                                       *)

\* The lines of the worksheet as the parser reads them.
WsInput == split(strip(worksheet_content), "\n")
Trimmed(k) == strip(WsInput[k])

\* A section starts where "# title" is followed by "---".
Boundaries ==
    {b \in 1..(Len(WsInput) - 1) :
        startswith(Trimmed(b), <<"#", " ">>) /\ Trimmed(b + 1) = <<"-", "-", "-">>}
TitleAt(b) == strip(drop(Trimmed(b), 2))
WsTitles == {TitleAt(b) : b \in Boundaries}
\* The section a title ends up with is the last one that carries it.
LastBoundaryOf(t) ==
    CHOOSE b \in Boundaries : TitleAt(b) = t /\ \A c \in Boundaries : TitleAt(c) = t => c <= b
SpanOf(b) ==
    LET later == {c \in Boundaries : c > b}
    IN  IF later = {} THEN (b + 2)..Len(WsInput)
        ELSE (b + 2)..((CHOOSE c \in later : \A d \in later : c <= d) - 1)

IsHeaderLine(l) == l # <<>> /\ l[1] = "#"
\* A header that ends with a pipe and has text before it opens a field; the
\* bare "#|" names none.
OpensField(l) == IsHeaderLine(l) /\ l[Len(l)] = "|" /\ Len(l) > 2
NamesNoField(l) == l = <<"#", "|">>
FieldA == <<"A">>

\* The body of the field opened at line k of a span: the lines of text up to
\* the next header that opens a field or is structural, or to the span's end.
FieldBody(k, span) ==
    LET stops == {j \in span : j > k /\ IsHeaderLine(Trimmed(j)) /\ ~NamesNoField(Trimmed(j))}
        stop == IF stops = {} THEN Len(WsInput) + 1
                ELSE CHOOSE j \in stops : \A m \in stops : j <= m
        text == {j \in span : j > k /\ j < stop /\ ~IsHeaderLine(Trimmed(j))}
        pick[n \in 0..Len(WsInput)] ==
            IF n = 0 THEN <<>>
            ELSE IF n \in text THEN Append(pick[n - 1], Trimmed(n)) ELSE pick[n - 1]
    IN  strip(join("\n", pick[Len(WsInput)]))

OpeningsOfA(span) ==
    {k \in span : OpensField(Trimmed(k)) /\ strip_chars(Trimmed(k), {"#", " ", "|"}) = FieldA}
FilledOfA(span) == {k \in span : Trimmed(k) = WsFilled}
Latest(ks) == CHOOSE k \in ks : \A m \in ks : m <= k

\* C9: a section whose only field lines carry their value after the pipe
\* ("### A | v", nothing but blank lines and plain headers around them) has
\* the field A with the value v in its `fields` mapping.
C9_FilledFieldRecorded ==
    pc = "ws_done" =>
        \A t \in WsTitles :
            LET span == SpanOf(LastBoundaryOf(t))
            IN  (/\ FilledOfA(span) # {}
                 /\ \A k \in span : Trimmed(k) \in {WsFilled, WsBlank, WsHeader})
                => /\ t \in DOMAIN sections
                   /\ FieldA \in DOMAIN sections[t].fields
                   /\ sections[t].fields[FieldA] = <<"v">>

\* C10: when the field A is opened several times within one section, the
\* section's `fields` mapping holds for A the trimmed, newline-joined body of
\* the last opening in that section, and nothing else.
C10_LastWriteWins ==
    pc = "ws_done" =>
        \A t \in WsTitles :
            LET span == SpanOf(LastBoundaryOf(t))
            IN  Cardinality(OpeningsOfA(span)) >= 2
                => /\ t \in DOMAIN sections
                   /\ FieldA \in DOMAIN sections[t].fields
                   /\ sections[t].fields[FieldA] = FieldBody(Latest(OpeningsOfA(span)), span)

\* A is opened twice in the last section, first with the body "x" and last
\* with an empty body, and the mapping holds the empty string.
C10_Witness ==
    /\ pc = "ws_done"
    /\ \E t \in WsTitles :
           LET span == SpanOf(LastBoundaryOf(t))
               opens == OpeningsOfA(span)
           IN  /\ Cardinality(opens) >= 2
               /\ \E k \in opens : k # Latest(opens) /\ k + 1 \in span /\ Trimmed(k + 1) = WsText
               /\ FieldBody(Latest(opens), span) = <<>>
               /\ sections[t].fields[FieldA] = <<>>

-----------------------------------------------------------------------------
(* SpecRound: parse_worksheet_content(parse_llm_md(template))              *)

\* "# M $": a required leaf of level 1
LineM == <<"#", " ", "M", " ", "$">>

RoundLines == {LineSectionS, LineSectionT, LineN, LineM}

InitRound ==
    /\ pc = "start"
    /\ \E ls \in SeqsUpTo(RoundLines, MaxTemplateLines) : template = join("\n", ls)
    /\ section = <<>>
    /\ quantities = EmptyDict
    /\ parsed_structure = <<>>
    /\ section_structure = <<>>
    /\ result = NoResult
    /\ HeaderIdle /\ ItemIdle /\ WorksheetIdle

\* The worksheet parse_llm_md returned is the argument of parse_worksheet_content.
FeedWorksheet ==
    /\ pc = "returned"
    /\ worksheet_content' = result.text
    /\ pc' = "ws_start"
    /\ UNCHANGED <<lines, i, sections, current_section, current_content, current_field,
                   current_field_content, expandVars, headerVars, itemVars>>

NextRound ==
    \/ ParseTemplate \/ GenerateFull \/ FeedWorksheet
    \/ BeginParse \/ OpenSection \/ FieldHeader \/ StructuralHeader \/ ContentLine \/ FinishParse

SpecRound == InitRound /\ [][NextRound]_vars

\* The template's lines, by index, and the leaves among them
IsLeafLine(l) == IsHeaderLine(l) /\ l[Len(l)] = "$"
LeafNameOf(l) == strip_chars(l, {"#", " ", "$"})
LeafLines == {k \in 1..Len(RawLines) : IsLeafLine(RawLines[k])}
SectionLines == {k \in 1..Len(RawLines) : IsSectionLine(RawLines[k])}
\* The section line a leaf lies under, 0 if there is none before it.
SectionLineOf(k) ==
    LET before == {m \in SectionLines : m < k}
    IN  IF before = {} THEN 0 ELSE CHOOSE m \in before : \A n \in before : n <= m
LeavesUnder(m) == {LeafNameOf(RawLines[k]) : k \in {n \in LeafLines : SectionLineOf(n) = m}}

\* Only required leaves of count 1, none nested below another: within one
\* section no header follows a header of a lower level.
OnlyFlatLeaves ==
    /\ template # <<>>
    /\ \A k \in 1..Len(RawLines) : IsSectionLine(RawLines[k]) \/ IsLeafLine(RawLines[k])
    /\ \A j, k \in LeafLines :
           (j < k /\ SectionLineOf(j) = SectionLineOf(k))
           => count_level(RawLines[j]) >= count_level(RawLines[k])

AllFieldsOf(secs) == UNION {DOMAIN secs[t].fields : t \in DOMAIN secs}
AllEmpty(fields) == \A n \in DOMAIN fields : fields[n] = <<>>

\* C7 as stated: for a template of non-nested required leaves of count 1,
\* the fields of the parsed worksheet are the leaf names of the template,
\* each with the empty string.
C7_RoundTripOnLeaves ==
    (pc = "ws_done" /\ OnlyFlatLeaves)
    => /\ AllFieldsOf(sections) = {LeafNameOf(RawLines[k]) : k \in LeafLines}
       /\ \A t \in DOMAIN sections : AllEmpty(sections[t].fields)

\* Every leaf lies in a worksheet section and no two sections share a name.
LeavesInDistinctSections ==
    /\ \A k \in LeafLines : SectionLineOf(k) # 0
    /\ \A m, n \in SectionLines : RawLines[m] = RawLines[n] => m = n

\* C7 amended: for a template of distinctly named worksheet sections that
\* hold only non-nested required leaves of count 1, the parsed worksheet has
\* one entry per section, whose fields are the leaf names of that section,
\* each with the empty string.
C7_RoundTripInSections ==
    (pc = "ws_done" /\ OnlyFlatLeaves /\ LeavesInDistinctSections)
    => /\ DOMAIN sections = TemplateSectionNames
       /\ \A m \in SectionLines :
              LET fields == sections[SectionNameOf(RawLines[m])].fields
              IN  DOMAIN fields = LeavesUnder(m) /\ AllEmpty(fields)

\* Two sections, one of them with both leaves, have gone the round trip.
C7_Witness ==
    /\ pc = "ws_done"
    /\ OnlyFlatLeaves
    /\ LeavesInDistinctSections
    /\ Cardinality(SectionLines) = 2
    /\ \E t \in DOMAIN sections :
           DOMAIN sections[t].fields = {<<"N">>, <<"M">>} /\ AllEmpty(sections[t].fields)

-----------------------------------------------------------------------------
(* Claims on _build_hierarchy                                              *)

\* The preorder traversal of a forest: each record without its children,
\* with the position in the traversal of its parent (0 for a root).
RECURSIVE Flatten(_, _, _)
Flatten(nodes, parent, acc) ==
    IF nodes = <<>> THEN acc
    ELSE LET me == Len(acc) + 1
             entry == [item |-> [Head(nodes) EXCEPT !.children = <<>>], parent |-> parent]
         IN  Flatten(Tail(nodes), parent,
                     Flatten(Head(nodes).children, me, Append(acc, entry)))

\* The nearest record before the k-th with a strictly smaller level, 0 if none.
NearestSmaller(records, k) ==
    LET smaller == {j \in 1..(k - 1) : records[j].level < records[k].level}
    IN  IF smaller = {} THEN 0 ELSE CHOOSE j \in smaller : \A m \in smaller : m <= j

\* C11: the preorder traversal of the roots _build_hierarchy returns is the
\* input sequence, every record once, and the parent of each record is the
\* nearest preceding record of a strictly smaller level, or none (a root)
\* when no such record precedes it.
C11_NearestSmallerParent ==
    pc = "items" =>
        LET flat == Flatten(hierarchy, 0, <<>>)
        IN  /\ Len(flat) = Len(section_structure)
            /\ \A k \in 1..Len(flat) :
                   /\ flat[k].item = section_structure[k]
                   /\ flat[k].parent = NearestSmaller(section_structure, k)

\* Levels 1, 3, 2: the level-3 record is a child of the level-1 record across
\* the gap, and the level-2 record becomes its next child once the level-3
\* record is popped.
C11_Witness ==
    /\ pc = "items"
    /\ Len(section_structure) = 3
    /\ section_structure[1].level = 1
    /\ section_structure[2].level = 3
    /\ section_structure[3].level = 2
    /\ Len(hierarchy) = 1
    /\ Len(hierarchy[1].children) = 2
    /\ hierarchy[1].children[1].level = 3
    /\ hierarchy[1].children[2].level = 2

-----------------------------------------------------------------------------
(* Claims on the blank lines of repeated containers                        *)

\* The roots generated so far that are repeated headers with children.
RepeatedContainers ==
    {r \in 1..Len(item_out) :
        /\ hierarchy[r].children # <<>>
        /\ ClaimedCount(hierarchy[r], hierarchy[r].name) > 1}

BlankLines(out) == {k \in 1..Len(out) : out[k] = <<>>}
\* The lines of out that open an instance of node.
InstanceStarts(node, out) ==
    {k \in 1..Len(out) : IsLineOf(node, out[k]) /\ out[k][Len(out[k])] # " "}

\* A repeated header with children of another level than 1 gets no blank line.
NoBlankBelowTop ==
    \A r \in RepeatedContainers : hierarchy[r].level # 1 => BlankLines(item_out[r]) = {}

\* C12 as stated: a level-1 header with children and effective count n > 1
\* gets exactly one blank line, the last line of its n instances; a repeated
\* header with children of another level gets none.
C12_OneBlankAfterBlock ==
    /\ \A r \in RepeatedContainers :
           hierarchy[r].level = 1 => BlankLines(item_out[r]) = {Len(item_out[r])}
    /\ NoBlankBelowTop

\* C12 amended: a level-1 header with children and effective count n > 1
\* gets n blank lines, one as the last line of each instance: a line is
\* blank exactly when the next instance, or nothing, follows it; a repeated
\* header with children of another level gets none.
C12_OneBlankAfterEachInstance ==
    /\ \A r \in RepeatedContainers :
           hierarchy[r].level = 1 =>
               LET out == item_out[r]
                   n == ClaimedCount(hierarchy[r], hierarchy[r].name)
               IN  /\ Cardinality(InstanceStarts(hierarchy[r], out)) = n
                   /\ Cardinality(BlankLines(out)) = n
                   /\ \A k \in 1..Len(out) :
                          k \in BlankLines(out)
                          <=> (k = Len(out) \/ (k + 1) \in InstanceStarts(hierarchy[r], out))
    /\ NoBlankBelowTop

\* "# A [4]" above a child has come out: four instances, four blank lines.
C12_Witness ==
    \E r \in RepeatedContainers :
        /\ hierarchy[r].level = 1
        /\ ClaimedCount(hierarchy[r], hierarchy[r].name) = 4
        /\ Cardinality(BlankLines(item_out[r])) = 4
        /\ item_out[r][1] = BaseLine(hierarchy[r])

-----------------------------------------------------------------------------
(* Claims on the content of a parsed section                               *)

\* The lines of the worksheet text as given.
RawInput == split(worksheet_content, "\n")

\* The lines of the section that starts at b, from its "# title" line up to
\* the line before the next section, or to the end of the input.
ContentSpan(b) ==
    LET later == {c \in Boundaries : c > b}
    IN  IF later = {} THEN b..Len(RawInput)
        ELSE b..((CHOOSE c \in later : \A d \in later : c <= d) - 1)

\* The lines of input numbered in ks, in input order.
RECURSIVE LinesIn(_, _)
LinesIn(ks, n) ==
    IF n = 0 THEN <<>>
    ELSE IF n \in ks THEN Append(LinesIn(ks, n - 1), RawInput[n]) ELSE LinesIn(ks, n - 1)

\* Every field of the section that starts at b is named by a field header
\* of its span and holds only lines of that span.
FieldsFromSpan(t, b) ==
    \A name \in DOMAIN sections[t].fields :
        /\ \E k \in ContentSpan(b) :
               /\ k <= Len(WsInput)
               /\ OpensField(Trimmed(k))
               /\ strip_chars(Trimmed(k), {"#", " ", "|"}) = name
        /\ LET body == split(sections[t].fields[name], "\n")
           IN  \A j \in 1..Len(body) :
                   body[j] = <<>> \/ \E k \in ContentSpan(b) : RawInput[k] = body[j]

\* C13: the content of every section of the worksheet is the newline-join,
\* in input order, of every input line from its "# title" line up to the
\* line before the next section's opening line or the end of the input, each
\* once and unchanged, and nothing from before the first section is in a
\* section's content or fields.
C13_ContentIsSectionSpan ==
    pc = "ws_done" =>
        \A t \in WsTitles :
            LET b == LastBoundaryOf(t)
            IN  /\ t \in DOMAIN sections
                /\ sections[t].content = join("\n", LinesIn(ContentSpan(b), Len(RawInput)))
                /\ FieldsFromSpan(t, b)

====
